---- MODULE Spec2Model ----
(***************************************************************************)
(* The settings dialog of anki-morphs (ankimorphs/settings_dialog.py) as a *)
(* state machine.  The state is the persisted configuration, the dialog's  *)
(* working copy (_config), the two filter tables, the scalar widgets of    *)
(* the five sections, the tag selector and the dialog's visibility.  Each  *)
(* signal handler of SettingsDialog is one action.                         *)
(*                                                                         *)
(* Rows, columns and combo-box indices are 0-based as in the source; a     *)
(* table is a sequence, so row r of a table t is t[r + 1].                 *)
(***************************************************************************)
EXTENDS Integers, Sequences, FiniteSets, TLC

VARIABLES
    persisted,           \* the add-on configuration the host stores
    config,              \* self._config
    note_filters_table,  \* self.ui.note_filters_table: its rows
    extra_fields_table,  \* self.ui.extra_fields_table: its rows
    currentRow,          \* self.ui.note_filters_table.currentRow()
    currentTab,          \* self.ui.tabWidget.currentIndex()
    ui,                  \* the scalar widgets of the tags, parse, skip, recalc and shortcuts tabs
    tag_selector,        \* self.tag_selector
    visible,             \* whether the settings dialog is shown
    dialogs,             \* aqt.dialogs: whether it records an instance of the settings dialog
    hostCalls,           \* the calls of the last closeWithCallback, each with what was so when it was made
    clickedRow,          \* where the row whose tags cell opened the tag selector is now (-1: nowhere)
    lastOp,              \* the handler that ran last and the answer its yes/no box got
    confirmations,       \* how many yes/no boxes the last handler showed
    tooltipShown,        \* the tooltip the last handler showed last ("" for none)
    edits,               \* how many widget values the user has changed so far
    steps                \* how many actions the user has performed so far

vars == <<persisted, config, note_filters_table, extra_fields_table, currentRow,
          currentTab, ui, tag_selector, visible, dialogs, hostCalls, clickedRow,
          lastOp, confirmations, tooltipShown, edits, steps>>

\* ------------------------------------------------------------------ bounds

\* The note-filters table never grows beyond MaxRows rows.
MaxRows == 2

\* The user changes at most MaxEdits widget values.
MaxEdits == 1

\* The user performs at most MaxSteps actions.
MaxSteps == 4

\* ------------------------------------------------- host catalogs (fixtures)

\* mw.col.models.all_names_and_ids()
models == << [name |-> "Basic", id |-> 1], [name |-> "Cloze", id |-> 2] >>

\* mw.col.models.field_map(mw.col.models.get(id)): the field names, in order
field_map(id) == IF id = 1 THEN << "Front", "Back" >> ELSE << "Text" >>

\* get_all_morphemizers()
morphemizers ==
    << [description |-> "Language w/ Spaces", name |-> "SpaceMorphemizer"],
       [description |-> "Japanese", name |-> "MecabMorphemizer"] >>

\* the *.csv files of <profile>/frequency-files
frequency_files == << "freq.csv" >>

\* the tag lists the tag selector can hand back
TagChoices == { << >>, << "n5" >>, << "jp", "n5" >> }

\* --------------------------------------------------------------- sequences

Range(s) == { s[i] : i \in DOMAIN s }

Map(s, F(_)) == [i \in DOMAIN s |-> F(s[i])]

\* s without its element at 0-based position r
RemoveAt(s, r) == [i \in 1..(Len(s) - 1) |-> IF i <= r THEN s[i] ELSE s[i + 1]]

\* --------------------------------------------------------------- json text

\* json.dumps of a list of strings: the text as its tokens, a bracket or comma
\* being [punct |-> c] and a string literal [str |-> s].
JsonDumps(tags) ==
    LET Item(i) == IF i = 1 THEN << [str |-> tags[i]] >>
                            ELSE << [punct |-> ","], [str |-> tags[i]] >>
        Items[i \in 0..Len(tags)] == IF i = 0 THEN << >> ELSE Items[i - 1] \o Item(i)
    IN  << [punct |-> "["] >> \o Items[Len(tags)] \o << [punct |-> "]"] >>

\* json.loads of such a text: the string literals between the brackets
JsonLoads(text) ==
    LET IsLiteral(tok) == "str" \in DOMAIN tok
        lits == SelectSeq(text, IsLiteral)
    IN  [i \in DOMAIN lits |-> lits[i].str]

\* ------------------------------------------------------------ key sequences

\* QKeySequence(str) and QKeySequence.toString(); the strings the configuration
\* holds are in the portable form toString() writes.
QKeySequence(s) == [portable |-> s]

toString(k) == k.portable

\* -------------------------------------------------------------- combo boxes

\* A QComboBox holding `items`: addItems on an empty box makes item 0 current.
QComboBox(items) == [items |-> items, currentIndex |-> IF Len(items) > 0 THEN 0 ELSE -1]

setCurrentIndex(cbox, index) == [cbox EXCEPT !.currentIndex = index]

itemText(cbox, index) ==
    IF index >= 0 /\ index < Len(cbox.items) THEN cbox.items[index + 1] ELSE ""

currentText(cbox) == itemText(cbox, cbox.currentIndex)

\* table_utils.get_combobox_index: the 0-based position of filter_field in
\* items, as the set holding it, or {} for None.
get_combobox_index(items, filter_field) ==
    LET hits == { i \in DOMAIN items : items[i] = filter_field }
    IN  IF hits = {} THEN {}
        ELSE { (CHOOSE i \in hits : \A j \in hits : i <= j) - 1 }

\* SettingsDialog._get_model_combobox_index
get_model_combobox_index(items, filter_field) ==
    LET hits == { i \in DOMAIN items : items[i].name = filter_field }
    IN  IF hits = {} THEN {}
        ELSE { (CHOOSE i \in hits : \A j \in hits : i <= j) - 1 }

\* the one element of a one-element set
TheIndex(opt) == CHOOSE i \in opt : TRUE

\* ------------------------------------------------------- the configuration

\* One filter record as save writes it (FilterTypeAlias), from 0-based choices:
\* the note type nt, its field fi, the tokenizer mi, the priority source pi
\* (0 is "Collection frequency") and the four extra fields (0 is "(none)").
MakeFilter(nt, tags, fi, mi, pi, read, modify, u, uc, h, d) ==
    LET fields == field_map(models[nt + 1].id)
        prio == << "Collection frequency" >> \o frequency_files
        extra == << "(none)" >> \o fields
    IN  [ note_type |-> models[nt + 1].name,
          note_type_id |-> models[nt + 1].id,
          tags |-> tags,
          field |-> fields[fi + 1],
          field_index |-> fi,
          morphemizer_description |-> morphemizers[mi + 1].description,
          morphemizer_name |-> morphemizers[mi + 1].name,
          morph_priority |-> prio[pi + 1],
          morph_priority_index |-> pi,
          read |-> read,
          modify |-> modify,
          unknowns_field |-> extra[u + 1],
          unknowns_field_index |-> u,
          unknowns_count_field |-> extra[uc + 1],
          unknowns_count_field_index |-> uc,
          highlighted_field |-> extra[h + 1],
          highlighted_field_index |-> h,
          difficulty_field |-> extra[d + 1],
          difficulty_field_index |-> d ]

\* The default configuration, as the configuration store holds it.
DefaultSnapshot ==
    [ tag_ready |-> "am-ready",
      tag_not_ready |-> "am-not-ready",
      tag_known_automatically |-> "am-known-automatically",
      tag_known_manually |-> "am-known-manually",
      tag_learn_card_now |-> "am-learn-card-now",
      shortcut_recalc |-> "Ctrl+M",
      shortcut_settings |-> "Ctrl+O",
      shortcut_browse_ready_same_unknown |-> "L",
      shortcut_browse_all_same_unknown |-> "Shift+L",
      shortcut_set_known_and_skip |-> "K",
      shortcut_learn_now |-> "Ctrl+Shift+N",
      shortcut_view_morphemes |-> "V",
      recalc_interval_for_known |-> 21,
      recalc_on_sync |-> TRUE,
      recalc_suspend_known_new_cards |-> FALSE,
      parse_ignore_bracket_contents |-> TRUE,
      parse_ignore_round_bracket_contents |-> FALSE,
      parse_ignore_slim_round_bracket_contents |-> FALSE,
      parse_ignore_names_morphemizer |-> FALSE,
      parse_ignore_names_textfile |-> FALSE,
      parse_ignore_suspended_cards_content |-> FALSE,
      skip_only_known_morphs_cards |-> TRUE,
      skip_unknown_morph_seen_today_cards |-> TRUE,
      skip_show_num_of_skipped_cards |-> TRUE,
      filters |-> << MakeFilter(0, << >>, 0, 0, 0, TRUE, TRUE, 0, 0, 0, 0) >> ]

\* A configuration a user has saved: every scalar differs from its default, and
\* two filters name different note types.
CustomSnapshot ==
    [ tag_ready |-> "ready",
      tag_not_ready |-> "not-ready",
      tag_known_automatically |-> "known-auto",
      tag_known_manually |-> "known-manual",
      tag_learn_card_now |-> "learn-now",
      shortcut_recalc |-> "Ctrl+Alt+M",
      shortcut_settings |-> "Ctrl+Alt+O",
      shortcut_browse_ready_same_unknown |-> "Ctrl+Alt+L",
      shortcut_browse_all_same_unknown |-> "Ctrl+Alt+A",
      shortcut_set_known_and_skip |-> "Ctrl+Alt+K",
      shortcut_learn_now |-> "Ctrl+Alt+N",
      shortcut_view_morphemes |-> "Ctrl+Alt+V",
      recalc_interval_for_known |-> 30,
      recalc_on_sync |-> FALSE,
      recalc_suspend_known_new_cards |-> TRUE,
      parse_ignore_bracket_contents |-> FALSE,
      parse_ignore_round_bracket_contents |-> TRUE,
      parse_ignore_slim_round_bracket_contents |-> TRUE,
      parse_ignore_names_morphemizer |-> TRUE,
      parse_ignore_names_textfile |-> TRUE,
      parse_ignore_suspended_cards_content |-> TRUE,
      skip_only_known_morphs_cards |-> FALSE,
      skip_unknown_morph_seen_today_cards |-> FALSE,
      skip_show_num_of_skipped_cards |-> FALSE,
      filters |-> << MakeFilter(0, << "jp" >>, 1, 1, 1, TRUE, FALSE, 1, 0, 2, 0),
                     MakeFilter(1, << >>, 0, 0, 0, FALSE, TRUE, 0, 1, 0, 0) >> ]

\* A configuration whose one filter names a note type, a field, a tokenizer
\* and a priority file the host no longer has.
StaleSnapshot ==
    [ DefaultSnapshot EXCEPT !.filters =
        << [ MakeFilter(0, << >>, 0, 0, 0, TRUE, TRUE, 0, 0, 0, 0) EXCEPT
               !.note_type = "Gone", !.note_type_id = 9,
               !.field = "Expression",
               !.morphemizer_description = "Removed", !.morphemizer_name = "Removed",
               !.morph_priority = "old.csv", !.morph_priority_index = 1,
               !.unknowns_field = "Expression", !.unknowns_field_index = 1 ] >> ]

\* A configuration saved before the host renamed field "Expression" of note
\* type Basic: its filter's unknowns field is no longer a field of Basic.
RenamedFieldSnapshot ==
    [ DefaultSnapshot EXCEPT !.filters =
        << [ MakeFilter(0, << >>, 0, 0, 0, TRUE, TRUE, 0, 0, 0, 0) EXCEPT
               !.unknowns_field = "Expression", !.unknowns_field_index = 1 ] >> ]

\* A configuration with two filters on the same note type and different extra
\* fields, as saved after: add row, open the extra-fields tab, pick "Back" as
\* the second row's unknowns field, save.
DupSnapshot ==
    [ DefaultSnapshot EXCEPT !.filters =
        << MakeFilter(0, << >>, 0, 0, 0, TRUE, TRUE, 0, 0, 0, 0),
           MakeFilter(0, << >>, 0, 0, 0, TRUE, TRUE, 2, 0, 0, 0) >> ]

\* The configurations the dialog is first opened on.
InitSnapshots ==
    { DefaultSnapshot, CustomSnapshot, StaleSnapshot, RenamedFieldSnapshot, DupSnapshot }

\* AnkiMorphsConfig(): the stored configuration as an object, its shortcuts
\* as key sequences.
AnkiMorphsConfig(stored) ==
    [ stored EXCEPT
        !.shortcut_recalc = QKeySequence(@),
        !.shortcut_settings = QKeySequence(@),
        !.shortcut_browse_ready_same_unknown = QKeySequence(@),
        !.shortcut_browse_all_same_unknown = QKeySequence(@),
        !.shortcut_set_known_and_skip = QKeySequence(@),
        !.shortcut_learn_now = QKeySequence(@),
        !.shortcut_view_morphemes = QKeySequence(@) ]

\* self._default_config = AnkiMorphsConfig(is_default=True)
default_config == AnkiMorphsConfig(DefaultSnapshot)

\* update_configs(new_config): the store after the write
update_configs(stored, new_config) ==
    [k \in DOMAIN stored |-> IF k \in DOMAIN new_config THEN new_config[k] ELSE stored[k]]

\* ------------------------------------------------------ the filter tables

\* QTableWidget.setRowCount: the first n rows kept, new rows without widgets
setRowCount(table, n) ==
    [i \in 1..n |-> IF i <= Len(table) THEN table[i] ELSE [widgets |-> FALSE]]

\* QTableWidget.removeRow: nothing is removed when row is not a row of the table
removeRow(table, row) ==
    IF row >= 0 /\ row < Len(table) THEN RemoveAt(table, row) ELSE table

\* Where the row that was at position tracked is after removeRow(row): gone
\* (-1) when it was the row removed, one up when it was below it
RowAfterRemoval(tracked, row, table) ==
    IF row < 0 \/ row >= Len(table) THEN tracked
    ELSE IF tracked = row THEN -1
    ELSE IF tracked > row THEN tracked - 1
    ELSE tracked

\* QTableWidget.setItem(row, 1, QTableWidgetItem(text)): ignored when row is
\* not a row of the table
setTagsItem(table, row, text) ==
    IF row >= 0 /\ row < Len(table)
    THEN [table EXCEPT ![row + 1].tags_item = text]
    ELSE table

\* SettingsDialog._set_note_filters_table_row: the widgets it puts in the row
NoteFiltersRow(config_filter) ==
    LET new_note_type_cbox == QComboBox(Map(models, LAMBDA m : m.name))
        note_type_name_index ==
            get_model_combobox_index(models, config_filter.note_type)
        note_type_cbox ==
            IF note_type_name_index # {}
            THEN setCurrentIndex(new_note_type_cbox, TheIndex(note_type_name_index))
            ELSE new_note_type_cbox
        current_model_id == models[note_type_cbox.currentIndex + 1].id
        fields == field_map(current_model_id)
        field_cbox_index == get_combobox_index(fields, config_filter.field)
        field_cbox ==
            IF field_cbox_index # {}
            THEN setCurrentIndex(QComboBox(fields), TheIndex(field_cbox_index))
            ELSE QComboBox(fields)
        descriptions == Map(morphemizers, LAMBDA m : m.description)
        morphemizer_cbox_index ==
            get_combobox_index(descriptions, config_filter.morphemizer_description)
        morphemizer_cbox ==
            IF morphemizer_cbox_index # {}
            THEN setCurrentIndex(QComboBox(descriptions), TheIndex(morphemizer_cbox_index))
            ELSE QComboBox(descriptions)
        new_morph_priority_cbox ==
            QComboBox(<< "Collection frequency" >> \o frequency_files)
        morph_priority_cbox_index ==
            get_combobox_index(frequency_files, config_filter.morph_priority)
        morph_priority_cbox ==
            IF morph_priority_cbox_index # {}
            THEN setCurrentIndex(new_morph_priority_cbox,
                                 TheIndex(morph_priority_cbox_index) + 1)
            ELSE new_morph_priority_cbox
    IN  [ widgets |-> TRUE,
          note_type_cbox |-> note_type_cbox,
          tags_item |-> JsonDumps(config_filter.tags),
          field_cbox |-> field_cbox,
          morphemizer_cbox |-> morphemizer_cbox,
          morph_priority_cbox |-> morph_priority_cbox,
          read_checkbox |-> config_filter.read,
          modify_checkbox |-> config_filter.modify ]

set_note_filters_table_row(table, row, config_filter) ==
    [table EXCEPT ![row + 1] = NoteFiltersRow(config_filter)]

\* SettingsDialog._setup_note_filters_table
setup_note_filters_table(table, config_filters) ==
    LET resized == setRowCount(table, Len(config_filters))
    IN  [i \in 1..Len(resized) |-> NoteFiltersRow(config_filters[i])]

\* SettingsDialog.create_extra_field_cbox
create_extra_field_cbox(fields) == QComboBox(<< "(none)" >> \o fields)

\* SettingsDialog.set_extra_field_cbox_index
set_extra_field_cbox_index(extra_fields_cbox, fields, cbox_filter_field) ==
    LET extra_fields_cbox_index == get_combobox_index(fields, cbox_filter_field)
    IN  IF extra_fields_cbox_index # {}
        THEN setCurrentIndex(extra_fields_cbox, TheIndex(extra_fields_cbox_index) + 1)
        ELSE extra_fields_cbox

\* SettingsDialog._set_extra_fields_table_row: the widgets it puts in row `row`
\* of the extra-fields table, given the note-filters table.  matching_filter is
\* the first filter of config_filters naming the row's note type, as the set
\* holding it, or {} for None.
ExtraFieldsRow(note_table, row, config_filters) ==
    LET note_filter_note_type_widget == note_table[row + 1].note_type_cbox
        note_type_text == currentText(note_filter_note_type_widget)
        current_model_id == models[note_filter_note_type_widget.currentIndex + 1].id
        fields == field_map(current_model_id)
        matches == { i \in DOMAIN config_filters :
                        config_filters[i].note_type = note_type_text }
        matching_filter ==
            IF matches = {} THEN {}
            ELSE { config_filters[CHOOSE i \in matches : \A j \in matches : i <= j] }
        Box(key) ==
            IF matching_filter # {}
            THEN set_extra_field_cbox_index(create_extra_field_cbox(fields), fields,
                                            (CHOOSE f \in matching_filter : TRUE)[key])
            ELSE create_extra_field_cbox(fields)
    IN  [ widgets |-> TRUE,
          note_type_item |-> note_type_text,
          unknowns_cbox |-> Box("unknowns_field"),
          unknowns_count_cbox |-> Box("unknowns_count_field"),
          highlighted_cbox |-> Box("highlighted_field"),
          difficulty_cbox |-> Box("difficulty_field") ]

\* SettingsDialog._setup_extra_fields_table
setup_extra_fields_table(note_table, extra_table, config_filters) ==
    LET note_filters_table_rows == Len(note_table)
        resized == setRowCount(extra_table, note_filters_table_rows)
    IN  [i \in 1..Len(resized) |->
            IF i <= note_filters_table_rows
            THEN ExtraFieldsRow(note_table, i - 1, config_filters)
            ELSE resized[i]]

\* ------------------------------------------------------ the scalar widgets

\* The widgets as Ui_SettingsDialog.setupUi leaves them.
setupUi ==
    [ tagReadyLineEdit |-> "",
      tagNotReadyLineEdit |-> "",
      tagKnownAutomaticallyLineEdit |-> "",
      tagKnownManuallyLineEdit |-> "",
      tagLearnCardNowLineEdit |-> "",
      parseIgnoreSquareCheckBox |-> FALSE,
      parseIgnoreRoundCheckBox |-> FALSE,
      parseIgnoreSlimCheckBox |-> FALSE,
      parseIgnoreNamesMizerCheckBox |-> FALSE,
      parseIgnoreNamesFileCheckBox |-> FALSE,
      parseIgnoreSuspendedCheckBox |-> FALSE,
      skipKnownCheckBox |-> FALSE,
      skipAlreadySeenCheckBox |-> FALSE,
      skipNotificationsCheckBox |-> FALSE,
      recalcIntervalSpinBox |-> 0,
      recalcBeforeSyncCheckBox |-> FALSE,
      recalcSuspendKnownCheckBox |-> FALSE,
      shortcutRecalcKeySequenceEdit |-> QKeySequence(""),
      shortcutSettingsKeySequenceEdit |-> QKeySequence(""),
      shortcutBrowseReadyKeySequenceEdit |-> QKeySequence(""),
      shortcutBrowseAllKeySequenceEdit |-> QKeySequence(""),
      shortcutKnownAndSkipKeySequenceEdit |-> QKeySequence(""),
      shortcutLearnNowKeySequenceEdit |-> QKeySequence(""),
      shortcutViewMorphsKeySequenceEdit |-> QKeySequence("") ]

TagsWidgets ==
    { "tagReadyLineEdit", "tagNotReadyLineEdit", "tagKnownAutomaticallyLineEdit",
      "tagKnownManuallyLineEdit", "tagLearnCardNowLineEdit" }

ParseWidgets ==
    { "parseIgnoreSquareCheckBox", "parseIgnoreRoundCheckBox", "parseIgnoreSlimCheckBox",
      "parseIgnoreNamesMizerCheckBox", "parseIgnoreNamesFileCheckBox",
      "parseIgnoreSuspendedCheckBox" }

SkipWidgets ==
    { "skipKnownCheckBox", "skipAlreadySeenCheckBox", "skipNotificationsCheckBox" }

RecalcWidgets ==
    { "recalcIntervalSpinBox", "recalcBeforeSyncCheckBox", "recalcSuspendKnownCheckBox" }

ShortcutsWidgets ==
    { "shortcutRecalcKeySequenceEdit", "shortcutSettingsKeySequenceEdit",
      "shortcutBrowseReadyKeySequenceEdit", "shortcutBrowseAllKeySequenceEdit",
      "shortcutKnownAndSkipKeySequenceEdit", "shortcutLearnNowKeySequenceEdit",
      "shortcutViewMorphsKeySequenceEdit" }

\* SettingsDialog._populate_tags_tab
populate_tags_tab(w, cfg) ==
    [ w EXCEPT
        !.tagReadyLineEdit = cfg.tag_ready,
        !.tagNotReadyLineEdit = cfg.tag_not_ready,
        !.tagKnownAutomaticallyLineEdit = cfg.tag_known_automatically,
        !.tagKnownManuallyLineEdit = cfg.tag_known_manually,
        !.tagLearnCardNowLineEdit = cfg.tag_learn_card_now ]

\* SettingsDialog._populate_parse_tab
populate_parse_tab(w, cfg) ==
    [ w EXCEPT
        !.parseIgnoreSquareCheckBox = cfg.parse_ignore_bracket_contents,
        !.parseIgnoreRoundCheckBox = cfg.parse_ignore_round_bracket_contents,
        !.parseIgnoreSlimCheckBox = cfg.parse_ignore_slim_round_bracket_contents,
        !.parseIgnoreNamesMizerCheckBox = cfg.parse_ignore_names_morphemizer,
        !.parseIgnoreNamesFileCheckBox = cfg.parse_ignore_names_textfile,
        !.parseIgnoreSuspendedCheckBox = cfg.parse_ignore_suspended_cards_content ]

\* SettingsDialog._populate_skip_tab
populate_skip_tab(w, cfg) ==
    [ w EXCEPT
        !.skipKnownCheckBox = cfg.skip_only_known_morphs_cards,
        !.skipAlreadySeenCheckBox = cfg.skip_unknown_morph_seen_today_cards,
        !.skipNotificationsCheckBox = cfg.skip_show_num_of_skipped_cards ]

\* SettingsDialog._populate_shortcuts_tab: the last five go through their
\* string form
populate_shortcuts_tab(w, cfg) ==
    [ w EXCEPT
        !.shortcutRecalcKeySequenceEdit = cfg.shortcut_recalc,
        !.shortcutSettingsKeySequenceEdit = cfg.shortcut_settings,
        !.shortcutBrowseReadyKeySequenceEdit =
            QKeySequence(toString(cfg.shortcut_browse_ready_same_unknown)),
        !.shortcutBrowseAllKeySequenceEdit =
            QKeySequence(toString(cfg.shortcut_browse_all_same_unknown)),
        !.shortcutKnownAndSkipKeySequenceEdit =
            QKeySequence(toString(cfg.shortcut_set_known_and_skip)),
        !.shortcutLearnNowKeySequenceEdit =
            QKeySequence(toString(cfg.shortcut_learn_now)),
        !.shortcutViewMorphsKeySequenceEdit =
            QKeySequence(toString(cfg.shortcut_view_morphemes)) ]

\* SettingsDialog._populate_recalc_tab
populate_recalc_tab(w, cfg) ==
    [ w EXCEPT
        !.recalcIntervalSpinBox = cfg.recalc_interval_for_known,
        !.recalcBeforeSyncCheckBox = cfg.recalc_on_sync,
        !.recalcSuspendKnownCheckBox = cfg.recalc_suspend_known_new_cards ]

\* SettingsDialog._restore_tags_defaults, past its confirmation
restore_tags_defaults(w) ==
    [ w EXCEPT
        !.tagReadyLineEdit = default_config.tag_ready,
        !.tagNotReadyLineEdit = default_config.tag_not_ready,
        !.tagKnownAutomaticallyLineEdit = default_config.tag_known_automatically,
        !.tagKnownManuallyLineEdit = default_config.tag_known_manually,
        !.tagLearnCardNowLineEdit = default_config.tag_learn_card_now ]

\* SettingsDialog._restore_parse_defaults, past its confirmation
restore_parse_defaults(w) ==
    [ w EXCEPT
        !.parseIgnoreSquareCheckBox = default_config.parse_ignore_bracket_contents,
        !.parseIgnoreRoundCheckBox = default_config.parse_ignore_round_bracket_contents,
        !.parseIgnoreSlimCheckBox = default_config.parse_ignore_slim_round_bracket_contents,
        !.parseIgnoreNamesMizerCheckBox = default_config.parse_ignore_names_morphemizer,
        !.parseIgnoreNamesFileCheckBox = default_config.parse_ignore_names_textfile,
        !.parseIgnoreSuspendedCheckBox = default_config.parse_ignore_suspended_cards_content ]

\* SettingsDialog._restore_shortcuts_defaults, past its confirmation
restore_shortcuts_defaults(w) ==
    [ w EXCEPT
        !.shortcutRecalcKeySequenceEdit = default_config.shortcut_recalc,
        !.shortcutSettingsKeySequenceEdit = default_config.shortcut_settings,
        !.shortcutBrowseReadyKeySequenceEdit =
            default_config.shortcut_browse_ready_same_unknown,
        !.shortcutBrowseAllKeySequenceEdit =
            default_config.shortcut_browse_all_same_unknown,
        !.shortcutKnownAndSkipKeySequenceEdit =
            default_config.shortcut_set_known_and_skip,
        !.shortcutLearnNowKeySequenceEdit = default_config.shortcut_learn_now,
        !.shortcutViewMorphsKeySequenceEdit = default_config.shortcut_view_morphemes ]

\* SettingsDialog._restore_recalc_defaults, past its confirmation
restore_recalc_defaults(w) ==
    [ w EXCEPT
        !.recalcIntervalSpinBox = default_config.recalc_interval_for_known,
        !.recalcBeforeSyncCheckBox = default_config.recalc_on_sync,
        !.recalcSuspendKnownCheckBox = default_config.recalc_suspend_known_new_cards ]

\* _restore_skip_defaults, had its last assignment named the recalc tab's
\* check box.
restore_skip_defaults_WritesRecalc(w) ==
    [ w EXCEPT
        !.skipKnownCheckBox = default_config.skip_only_known_morphs_cards,
        !.skipAlreadySeenCheckBox = default_config.skip_unknown_morph_seen_today_cards,
        !.recalcBeforeSyncCheckBox = default_config.skip_show_num_of_skipped_cards ]

\* SettingsDialog._restore_skip_defaults, past its confirmation
restore_skip_defaults(w) ==
    [ w EXCEPT
        !.skipKnownCheckBox = default_config.skip_only_known_morphs_cards,
        !.skipAlreadySeenCheckBox = default_config.skip_unknown_morph_seen_today_cards,
        !.skipNotificationsCheckBox = default_config.skip_show_num_of_skipped_cards ]

\* ------------------------------------------------------------------- save

\* SettingsDialog._save_to_config: new_config before its filters are added
NewConfigScalars(w) ==
    [ tag_ready |-> w.tagReadyLineEdit,
      tag_not_ready |-> w.tagNotReadyLineEdit,
      tag_known_automatically |-> w.tagKnownAutomaticallyLineEdit,
      tag_known_manually |-> w.tagKnownManuallyLineEdit,
      tag_learn_card_now |-> w.tagLearnCardNowLineEdit,
      shortcut_recalc |-> toString(w.shortcutRecalcKeySequenceEdit),
      shortcut_settings |-> toString(w.shortcutSettingsKeySequenceEdit),
      shortcut_browse_ready_same_unknown |-> toString(w.shortcutBrowseReadyKeySequenceEdit),
      shortcut_browse_all_same_unknown |-> toString(w.shortcutBrowseAllKeySequenceEdit),
      shortcut_set_known_and_skip |-> toString(w.shortcutKnownAndSkipKeySequenceEdit),
      shortcut_learn_now |-> toString(w.shortcutLearnNowKeySequenceEdit),
      shortcut_view_morphemes |-> toString(w.shortcutViewMorphsKeySequenceEdit),
      recalc_interval_for_known |-> w.recalcIntervalSpinBox,
      recalc_on_sync |-> w.recalcBeforeSyncCheckBox,
      recalc_suspend_known_new_cards |-> w.recalcSuspendKnownCheckBox,
      parse_ignore_bracket_contents |-> w.parseIgnoreSquareCheckBox,
      parse_ignore_round_bracket_contents |-> w.parseIgnoreRoundCheckBox,
      parse_ignore_slim_round_bracket_contents |-> w.parseIgnoreSlimCheckBox,
      parse_ignore_names_morphemizer |-> w.parseIgnoreNamesMizerCheckBox,
      parse_ignore_names_textfile |-> w.parseIgnoreNamesFileCheckBox,
      parse_ignore_suspended_cards_content |-> w.parseIgnoreSuspendedCheckBox,
      skip_only_known_morphs_cards |-> w.skipKnownCheckBox,
      skip_unknown_morph_seen_today_cards |-> w.skipAlreadySeenCheckBox,
      skip_show_num_of_skipped_cards |-> w.skipNotificationsCheckBox ]

\* SettingsDialog._save_to_config: the filter record of one row, read from row
\* `row` of the note-filters table and row `row` of the extra-fields table
RowFilter(note_row, extra_row) ==
    [ note_type |-> currentText(note_row.note_type_cbox),
      note_type_id |-> models[note_row.note_type_cbox.currentIndex + 1].id,
      tags |-> JsonLoads(note_row.tags_item),
      field |-> currentText(note_row.field_cbox),
      field_index |-> note_row.field_cbox.currentIndex,
      morphemizer_description |-> currentText(note_row.morphemizer_cbox),
      morphemizer_name |-> morphemizers[note_row.morphemizer_cbox.currentIndex + 1].name,
      morph_priority |-> currentText(note_row.morph_priority_cbox),
      morph_priority_index |-> note_row.morph_priority_cbox.currentIndex,
      read |-> note_row.read_checkbox,
      modify |-> note_row.modify_checkbox,
      unknowns_field |-> currentText(extra_row.unknowns_cbox),
      unknowns_field_index |-> extra_row.unknowns_cbox.currentIndex,
      unknowns_count_field |-> currentText(extra_row.unknowns_count_cbox),
      unknowns_count_field_index |-> extra_row.unknowns_count_cbox.currentIndex,
      highlighted_field |-> currentText(extra_row.highlighted_cbox),
      highlighted_field_index |-> extra_row.highlighted_cbox.currentIndex,
      difficulty_field |-> currentText(extra_row.difficulty_cbox),
      difficulty_field_index |-> extra_row.difficulty_cbox.currentIndex ]

\* SettingsDialog._save_to_config: the filters list, one record per row of the
\* note-filters table
NewFilters(note_table, extra_table) ==
    [i \in 1..Len(note_table) |-> RowFilter(note_table[i], extra_table[i])]

\* SettingsDialog._save_to_config: new_config
NewConfig(w, note_table, extra_table) ==
    [k \in DOMAIN NewConfigScalars(w) \cup { "filters" } |->
        IF k = "filters" THEN NewFilters(note_table, extra_table)
        ELSE NewConfigScalars(w)[k]]

\* _extra_fields_changed, had it compared all four extra fields.
extra_fields_changed_AllFour(old_filters, new_filters) ==
    LET extra_fields == { "unknowns_field", "unknowns_count_field",
                          "highlighted_field", "difficulty_field" }
    IN  /\ \E i \in DOMAIN new_filters : \E field \in extra_fields :
               new_filters[i][field] # "(none)"
        /\ \E index \in DOMAIN old_filters :
              /\ index <= Len(new_filters)
              /\ \E field \in extra_fields :
                    /\ new_filters[index][field] # old_filters[index][field]
                    /\ new_filters[index][field] # "(none)"

\* SettingsDialog._extra_fields_changed
extra_fields_changed(old_filters, new_filters) ==
    LET extra_fields == { "unknowns_field", "highlighted_field", "difficulty_field" }
        has_active_extra_fields ==
            \E i \in DOMAIN new_filters : \E field \in extra_fields :
                new_filters[i][field] # "(none)"
        Differs(index) ==
            \/ /\ new_filters[index].unknowns_field # old_filters[index].unknowns_field
               /\ new_filters[index].unknowns_field # "(none)"
            \/ /\ new_filters[index].highlighted_field # old_filters[index].highlighted_field
               /\ new_filters[index].highlighted_field # "(none)"
            \/ /\ new_filters[index].difficulty_field # old_filters[index].difficulty_field
               /\ new_filters[index].difficulty_field # "(none)"
    IN  /\ has_active_extra_fields
        /\ \E index \in DOMAIN old_filters :
              /\ index <= Len(new_filters)   \* the loop breaks past the new filters
              /\ Differs(index)

\* ------------------------------------------------------ the handler record

\* The value of lastOp: the handler that ran and the answer its yes/no box
\* got, "none" when it showed no box.
Op(name, answer) == [op |-> name, answer |-> answer]

Answer(answered_yes) == IF answered_yes THEN "yes" ELSE "no"

\* ----------------------------------------------------------------- tooltips

RememberToSave == "Remember to save!"

PleaseRecalc == "Please recalc to avoid unexpected behaviour"

\* SettingsDialog._warning_dialog: the tooltip it shows for an answer
warning_dialog_tooltip(answered_yes, display_tooltip) ==
    IF answered_yes /\ display_tooltip THEN RememberToSave ELSE ""

\* ------------------------------------------------------------ construction

\* SettingsDialog.__init__ on the stored configuration: the new dialog's state
NewDialog(stored) ==
    LET cfg == AnkiMorphsConfig(stored)
        note_table == setup_note_filters_table(<< >>, cfg.filters)
        extra_table == setup_extra_fields_table(note_table, << >>, cfg.filters)
        widgets ==
            populate_recalc_tab(
                populate_shortcuts_tab(
                    populate_skip_tab(
                        populate_parse_tab(
                            populate_tags_tab(setupUi, cfg), cfg), cfg), cfg), cfg)
    IN  [ config |-> cfg,
          note_filters_table |-> note_table,
          extra_fields_table |-> extra_table,
          ui |-> widgets,
          tag_selector |-> [ open |-> FALSE,
                             current_note_filter_row |-> -1,
                             selected_tags |-> << >> ] ]

Init ==
    \E stored \in InitSnapshots :
        /\ persisted = stored
        /\ config = NewDialog(stored).config
        /\ note_filters_table = NewDialog(stored).note_filters_table
        /\ extra_fields_table = NewDialog(stored).extra_fields_table
        /\ ui = NewDialog(stored).ui
        /\ tag_selector = NewDialog(stored).tag_selector
        /\ currentRow = -1
        /\ currentTab = 0
        /\ visible = TRUE
        /\ dialogs = [ settings_dialog |-> TRUE ]
        /\ hostCalls = << >>
        /\ clickedRow = -1
        /\ lastOp = Op("open", "none")
        /\ confirmations = 0
        /\ tooltipShown = ""
        /\ edits = 0
        /\ steps = 0

\* aqt.dialogs.open while the registry records no instance of the settings
\* dialog: a new SettingsDialog is constructed on the stored configuration
\* and recorded.
OpenDialog ==
    /\ steps < MaxSteps
    /\ steps' = steps + 1
    /\ ~dialogs.settings_dialog
    /\ dialogs' = [dialogs EXCEPT !.settings_dialog = TRUE]
    /\ UNCHANGED hostCalls
    /\ clickedRow' = -1
    /\ config' = NewDialog(persisted).config
    /\ note_filters_table' = NewDialog(persisted).note_filters_table
    /\ extra_fields_table' = NewDialog(persisted).extra_fields_table
    /\ ui' = NewDialog(persisted).ui
    /\ tag_selector' = NewDialog(persisted).tag_selector
    /\ currentRow' = -1
    /\ currentTab' = 0
    /\ visible' = TRUE
    /\ lastOp' = Op("open", "none")
    /\ confirmations' = 0
    /\ tooltipShown' = ""
    /\ UNCHANGED <<persisted, edits>>

\* Close, had closing the dialog written the widgets to the configuration.
Close_SavesWidgets ==
    /\ steps < MaxSteps
    /\ steps' = steps + 1
    /\ UNCHANGED <<dialogs, hostCalls, clickedRow>>
    /\ visible
    /\ visible' = FALSE
    /\ tag_selector' = [tag_selector EXCEPT !.open = FALSE]
    /\ persisted' = update_configs(persisted,
                        NewConfig(ui, note_filters_table, extra_fields_table))
    /\ lastOp' = Op("close", "none")
    /\ confirmations' = 0
    /\ tooltipShown' = ""
    /\ UNCHANGED <<config, note_filters_table, extra_fields_table,
                   currentRow, currentTab, ui, edits>>

\* Close, had finished not been connected to tag_selector.close.
Close_LeavesTagSelector ==
    /\ steps < MaxSteps
    /\ steps' = steps + 1
    /\ UNCHANGED <<dialogs, hostCalls, clickedRow>>
    /\ visible
    /\ visible' = FALSE
    /\ lastOp' = Op("close", "none")
    /\ confirmations' = 0
    /\ tooltipShown' = ""
    /\ UNCHANGED <<persisted, config, note_filters_table, extra_fields_table,
                   currentRow, currentTab, ui, tag_selector, edits>>

\* cancelPushButton.clicked -> self.close, or the window is closed: finished
\* closes the tag selector too.
Close ==
    /\ steps < MaxSteps
    /\ steps' = steps + 1
    /\ UNCHANGED <<dialogs, hostCalls, clickedRow>>
    /\ visible
    /\ visible' = FALSE
    /\ tag_selector' = [tag_selector EXCEPT !.open = FALSE]
    /\ lastOp' = Op("close", "none")
    /\ confirmations' = 0
    /\ tooltipShown' = ""
    /\ UNCHANGED <<persisted, config, note_filters_table, extra_fields_table,
                   currentRow, currentTab, ui, edits>>

\* SettingsDialog.reopen: aqt.dialogs.open while the registry records the
\* instance; show() shows the dialog as it was left.
Reopen ==
    /\ steps < MaxSteps
    /\ steps' = steps + 1
    /\ dialogs.settings_dialog
    /\ ~visible
    /\ visible' = TRUE
    /\ lastOp' = Op("reopen", "none")
    /\ confirmations' = 0
    /\ tooltipShown' = ""
    /\ UNCHANGED <<persisted, config, note_filters_table, extra_fields_table,
                   currentRow, currentTab, ui, tag_selector, dialogs, hostCalls,
                   clickedRow, edits>>

\* What closeWithCallback works on: whether the dialog is shown, whether the
\* tag selector is open, whether the registry records the dialog, and the
\* calls made so far, each with what was so when it was made.
HostCall(name, h) == [ call |-> name, visible |-> h.visible, marked_open |-> h.marked_open ]

\* self.close(): a shown dialog is hidden and finished closes the tag selector
close(h) ==
    [h EXCEPT !.visible = FALSE,
              !.tag_selector_open = IF h.visible THEN FALSE ELSE @,
              !.calls = Append(@, HostCall("close", h))]

\* aqt.dialogs.markClosed(SETTINGS_DIALOG_NAME)
markClosed(h) ==
    [h EXCEPT !.marked_open = FALSE,
              !.calls = Append(@, HostCall("markClosed", h))]

\* callback()
callback(h) == [h EXCEPT !.calls = Append(@, HostCall("callback", h))]

\* closeWithCallback, had it invoked the callback before marking the dialog
\* closed.
closeWithCallback_CallbackBeforeMark(h) == markClosed(callback(close(h)))

\* The statements of closeWithCallback in the order of the source
closeWithCallback(h) == callback(markClosed(close(h)))

\* SettingsDialog.closeWithCallback: the host closes every dialog its registry
\* records.
CloseWithCallback ==
    /\ steps < MaxSteps
    /\ steps' = steps + 1
    /\ dialogs.settings_dialog
    /\ LET h == closeWithCallback([ visible |-> visible,
                                    tag_selector_open |-> tag_selector.open,
                                    marked_open |-> dialogs.settings_dialog,
                                    calls |-> << >> ])
       IN  /\ visible' = h.visible
           /\ tag_selector' = [tag_selector EXCEPT !.open = h.tag_selector_open]
           /\ dialogs' = [dialogs EXCEPT !.settings_dialog = h.marked_open]
           /\ hostCalls' = h.calls
    /\ lastOp' = Op("close_with_callback", "none")
    /\ confirmations' = 0
    /\ tooltipShown' = ""
    /\ UNCHANGED <<persisted, config, note_filters_table, extra_fields_table,
                   currentRow, currentTab, ui, clickedRow, edits>>

\* ----------------------------------------------------------- the handlers

\* _add_new_row, had it not set the extra-fields table up again.
AddNewRow_SkipsExtraFields ==
    /\ steps < MaxSteps
    /\ steps' = steps + 1
    /\ UNCHANGED <<dialogs, hostCalls, clickedRow>>
    /\ visible
    /\ Len(note_filters_table) < MaxRows
    /\ LET grown == setRowCount(note_filters_table, Len(note_filters_table) + 1)
           config_filter == default_config.filters[1]
           row == Len(grown) - 1
       IN  note_filters_table' = set_note_filters_table_row(grown, row, config_filter)
    /\ lastOp' = Op("add_row", "none")
    /\ confirmations' = 0
    /\ tooltipShown' = ""
    /\ UNCHANGED <<persisted, config, extra_fields_table, currentRow, currentTab, ui,
                   tag_selector, visible, edits>>

\* SettingsDialog._add_new_row
AddNewRow ==
    /\ steps < MaxSteps
    /\ steps' = steps + 1
    /\ UNCHANGED <<dialogs, hostCalls, clickedRow>>
    /\ visible
    /\ Len(note_filters_table) < MaxRows
    /\ LET grown == setRowCount(note_filters_table, Len(note_filters_table) + 1)
           config_filter == default_config.filters[1]
           row == Len(grown) - 1
       IN  /\ note_filters_table' = set_note_filters_table_row(grown, row, config_filter)
           /\ extra_fields_table' =
                  setup_extra_fields_table(note_filters_table', extra_fields_table,
                                           config.filters)
    /\ lastOp' = Op("add_row", "none")
    /\ confirmations' = 0
    /\ tooltipShown' = ""
    /\ UNCHANGED <<persisted, config, currentRow, currentTab, ui, tag_selector,
                   visible, edits>>

\* _delete_row, had it removed the last row instead of the current one.
DeleteRow_RemovesLastRow ==
    /\ steps < MaxSteps
    /\ steps' = steps + 1
    /\ UNCHANGED <<dialogs, hostCalls>>
    /\ visible
    /\ \E confirmed \in BOOLEAN :
          /\ IF confirmed
             THEN LET selected_row == Len(note_filters_table) - 1
                  IN  /\ note_filters_table' = removeRow(note_filters_table, selected_row)
                      /\ IF note_filters_table' = note_filters_table
                         THEN currentRow' = currentRow
                         ELSE currentRow' \in -1..(Len(note_filters_table') - 1)
                      /\ clickedRow' = RowAfterRemoval(clickedRow, selected_row,
                                                       note_filters_table)
             ELSE UNCHANGED <<note_filters_table, currentRow, clickedRow>>
          /\ lastOp' = Op("delete_row", Answer(confirmed))
          /\ tooltipShown' = warning_dialog_tooltip(confirmed, TRUE)
    /\ confirmations' = 1
    /\ UNCHANGED <<persisted, config, extra_fields_table, currentTab, ui,
                   tag_selector, visible, edits>>

\* _delete_row, had it removed the row whatever the answer.
DeleteRow_IgnoresAnswer ==
    /\ steps < MaxSteps
    /\ steps' = steps + 1
    /\ UNCHANGED <<dialogs, hostCalls>>
    /\ visible
    /\ \E confirmed \in BOOLEAN :
          /\ LET selected_row == currentRow
             IN  /\ note_filters_table' = removeRow(note_filters_table, selected_row)
                 /\ IF note_filters_table' = note_filters_table
                    THEN currentRow' = currentRow
                    ELSE currentRow' \in -1..(Len(note_filters_table') - 1)
                 /\ clickedRow' = RowAfterRemoval(clickedRow, selected_row,
                                                  note_filters_table)
          /\ lastOp' = Op("delete_row", Answer(confirmed))
          /\ tooltipShown' = warning_dialog_tooltip(confirmed, TRUE)
    /\ confirmations' = 1
    /\ UNCHANGED <<persisted, config, extra_fields_table, currentTab, ui,
                   tag_selector, visible, edits>>

\* SettingsDialog._delete_row.  Which row is current after a removal is the
\* toolkit's choice: any row, or none.
DeleteRow ==
    /\ steps < MaxSteps
    /\ steps' = steps + 1
    /\ UNCHANGED <<dialogs, hostCalls>>
    /\ visible
    /\ \E confirmed \in BOOLEAN :
          /\ IF confirmed
             THEN LET selected_row == currentRow
                  IN  /\ note_filters_table' = removeRow(note_filters_table, selected_row)
                      /\ IF note_filters_table' = note_filters_table
                         THEN currentRow' = currentRow
                         ELSE currentRow' \in -1..(Len(note_filters_table') - 1)
                      /\ clickedRow' = RowAfterRemoval(clickedRow, selected_row,
                                                       note_filters_table)
             ELSE UNCHANGED <<note_filters_table, currentRow, clickedRow>>
          /\ lastOp' = Op("delete_row", Answer(confirmed))
          /\ tooltipShown' = warning_dialog_tooltip(confirmed, TRUE)
    /\ confirmations' = 1
    /\ UNCHANGED <<persisted, config, extra_fields_table, currentTab, ui,
                   tag_selector, visible, edits>>

\* A per-section restore button: the handler named `section`, with `restored`
\* the widgets after its assignments
RestoreSection(section, restored) ==
    /\ steps < MaxSteps
    /\ steps' = steps + 1
    /\ UNCHANGED <<dialogs, hostCalls, clickedRow>>
    /\ visible
    /\ \E confirmed \in BOOLEAN :
          /\ ui' = IF confirmed THEN restored ELSE ui
          /\ lastOp' = Op(section, Answer(confirmed))
          /\ tooltipShown' = warning_dialog_tooltip(confirmed, TRUE)
    /\ confirmations' = 1
    /\ UNCHANGED <<persisted, config, note_filters_table, extra_fields_table,
                   currentRow, currentTab, tag_selector, visible, edits>>

\* SettingsDialog._restore_tags_defaults
RestoreTagsDefaults == RestoreSection("restore_tags", restore_tags_defaults(ui))

\* SettingsDialog._restore_parse_defaults
RestoreParseDefaults == RestoreSection("restore_parse", restore_parse_defaults(ui))

\* SettingsDialog._restore_skip_defaults
RestoreSkipDefaults == RestoreSection("restore_skip", restore_skip_defaults(ui))

\* SettingsDialog._restore_recalc_defaults
RestoreRecalcDefaults == RestoreSection("restore_recalc", restore_recalc_defaults(ui))

\* SettingsDialog._restore_shortcuts_defaults
RestoreShortcutsDefaults == RestoreSection("restore_shortcuts", restore_shortcuts_defaults(ui))

\* SettingsDialog._restore_all_defaults.  When the table shrinks below the
\* current row, which row is current afterwards is the toolkit's choice.
RestoreAllDefaults ==
    /\ steps < MaxSteps
    /\ steps' = steps + 1
    /\ UNCHANGED <<dialogs, hostCalls>>
    /\ visible
    /\ \E confirmed \in BOOLEAN :
          /\ IF confirmed
             THEN LET default_filters == default_config.filters
                  IN  /\ note_filters_table' =
                             setup_note_filters_table(note_filters_table, default_filters)
                      /\ extra_fields_table' =
                             setup_extra_fields_table(note_filters_table',
                                                      extra_fields_table, default_filters)
                      /\ ui' = restore_shortcuts_defaults(
                                   restore_recalc_defaults(
                                       restore_skip_defaults(
                                           restore_parse_defaults(
                                               restore_tags_defaults(ui)))))
                      /\ IF currentRow < Len(note_filters_table')
                         THEN currentRow' = currentRow
                         ELSE currentRow' \in -1..(Len(note_filters_table') - 1)
                      /\ clickedRow' = IF clickedRow < Len(note_filters_table')
                                       THEN clickedRow ELSE -1
             ELSE UNCHANGED <<note_filters_table, extra_fields_table, ui, currentRow,
                              clickedRow>>
          /\ lastOp' = Op("restore_all", Answer(confirmed))
          /\ tooltipShown' = warning_dialog_tooltip(confirmed, TRUE)
    /\ confirmations' = 1
    /\ UNCHANGED <<persisted, config, currentTab, tag_selector, visible, edits>>

\* _save_to_config, had it not returned when the confirmation is declined.
SaveToConfig_IgnoresAnswer ==
    /\ steps < MaxSteps
    /\ steps' = steps + 1
    /\ UNCHANGED <<dialogs, hostCalls, clickedRow>>
    /\ visible
    /\ LET new_config == NewConfig(ui, note_filters_table, extra_fields_table)
           changed == extra_fields_changed(config.filters, new_config.filters)
       IN  \E accepted \in BOOLEAN :
              /\ confirmations' = IF changed THEN 1 ELSE 0
              /\ persisted' = update_configs(persisted, new_config)
              /\ config' = AnkiMorphsConfig(persisted')
              /\ lastOp' = Op("save", IF changed THEN Answer(accepted) ELSE "none")
              /\ tooltipShown' = PleaseRecalc
    /\ UNCHANGED <<note_filters_table, extra_fields_table, currentRow, currentTab,
                   ui, tag_selector, visible, edits>>

\* _save_to_config, had it not reloaded the working copy after the write.
SaveToConfig_KeepsWorkingCopy ==
    /\ steps < MaxSteps
    /\ steps' = steps + 1
    /\ UNCHANGED <<dialogs, hostCalls, clickedRow>>
    /\ visible
    /\ LET new_config == NewConfig(ui, note_filters_table, extra_fields_table)
           changed == extra_fields_changed(config.filters, new_config.filters)
       IN  \E accepted \in BOOLEAN :
              /\ confirmations' = IF changed THEN 1 ELSE 0
              /\ IF changed /\ ~accepted
                 THEN /\ UNCHANGED <<persisted, config>>
                      /\ lastOp' = Op("save", "no")
                      /\ tooltipShown' = warning_dialog_tooltip(accepted, FALSE)
                 ELSE /\ persisted' = update_configs(persisted, new_config)
                      /\ config' = config
                      /\ lastOp' = Op("save", IF changed THEN "yes" ELSE "none")
                      /\ tooltipShown' = PleaseRecalc
    /\ UNCHANGED <<note_filters_table, extra_fields_table, currentRow, currentTab,
                   ui, tag_selector, visible, edits>>

\* SettingsDialog._save_to_config
SaveToConfig ==
    /\ steps < MaxSteps
    /\ steps' = steps + 1
    /\ UNCHANGED <<dialogs, hostCalls, clickedRow>>
    /\ visible
    /\ LET new_config == NewConfig(ui, note_filters_table, extra_fields_table)
           changed == extra_fields_changed(config.filters, new_config.filters)
       IN  \E accepted \in BOOLEAN :
              /\ confirmations' = IF changed THEN 1 ELSE 0
              /\ IF changed /\ ~accepted
                 THEN /\ UNCHANGED <<persisted, config>>
                      /\ lastOp' = Op("save", "no")
                      /\ tooltipShown' = warning_dialog_tooltip(accepted, FALSE)
                 ELSE /\ persisted' = update_configs(persisted, new_config)
                      /\ config' = AnkiMorphsConfig(persisted')
                      /\ lastOp' = Op("save", IF changed THEN "yes" ELSE "none")
                      /\ tooltipShown' = PleaseRecalc
    /\ UNCHANGED <<note_filters_table, extra_fields_table, currentRow, currentTab,
                   ui, tag_selector, visible, edits>>

\* _tab_change, had it not re-populated the extra-fields table.
TabChange_KeepsExtraFields ==
    /\ steps < MaxSteps
    /\ steps' = steps + 1
    /\ UNCHANGED <<dialogs, hostCalls, clickedRow>>
    /\ visible
    /\ \E tab_index \in { 0, 1 } :
          /\ tab_index # currentTab
          /\ currentTab' = tab_index
    /\ lastOp' = Op("tab_change", "none")
    /\ confirmations' = 0
    /\ tooltipShown' = ""
    /\ UNCHANGED <<persisted, config, note_filters_table, extra_fields_table,
                   currentRow, ui, tag_selector, visible, edits>>

\* SettingsDialog._tab_change: the user moves to another tab
TabChange ==
    /\ steps < MaxSteps
    /\ steps' = steps + 1
    /\ UNCHANGED <<dialogs, hostCalls, clickedRow>>
    /\ visible
    /\ \E tab_index \in { 0, 1 } :
          /\ tab_index # currentTab
          /\ currentTab' = tab_index
          /\ extra_fields_table' =
                 IF tab_index = 1
                 THEN setup_extra_fields_table(note_filters_table, extra_fields_table,
                                               config.filters)
                 ELSE extra_fields_table
    /\ lastOp' = Op("tab_change", "none")
    /\ confirmations' = 0
    /\ tooltipShown' = ""
    /\ UNCHANGED <<persisted, config, note_filters_table, currentRow, ui,
                   tag_selector, visible, edits>>

\* SettingsDialog._tags_cell_clicked: a click on a cell of the note-filters
\* table, which makes its row current; a click in the tags column opens the
\* tag selector on that row.
TagsCellClicked ==
    /\ steps < MaxSteps
    /\ steps' = steps + 1
    /\ UNCHANGED <<dialogs, hostCalls>>
    /\ visible
    /\ \E row \in 0..(Len(note_filters_table) - 1), column \in { 0, 1 } :
          /\ currentRow' = row
          /\ clickedRow' = IF column # 1 THEN clickedRow ELSE row
          /\ tag_selector' =
                 IF column # 1 THEN tag_selector
                 ELSE [ open |-> TRUE,
                        current_note_filter_row |-> row,
                        selected_tags |-> note_filters_table[row + 1].tags_item ]
    /\ lastOp' = Op("cell_clicked", "none")
    /\ confirmations' = 0
    /\ tooltipShown' = ""
    /\ UNCHANGED <<persisted, config, note_filters_table, extra_fields_table,
                   currentTab, ui, visible, edits>>

\* SettingsDialog._update_note_filter_tags: the user picks tags in the tag
\* selector and presses its apply button
UpdateNoteFilterTags ==
    /\ steps < MaxSteps
    /\ steps' = steps + 1
    /\ UNCHANGED <<dialogs, hostCalls, clickedRow>>
    /\ visible
    /\ tag_selector.open
    /\ edits < MaxEdits
    /\ \E chosen \in TagChoices :
          /\ tag_selector' = [tag_selector EXCEPT !.selected_tags = JsonDumps(chosen)]
          /\ note_filters_table' =
                 setTagsItem(note_filters_table, tag_selector.current_note_filter_row,
                             tag_selector'.selected_tags)
    /\ edits' = edits + 1
    /\ lastOp' = Op("tags_applied", "none")
    /\ confirmations' = 0
    /\ tooltipShown' = RememberToSave
    /\ UNCHANGED <<persisted, config, extra_fields_table, currentRow, currentTab,
                   ui, visible>>

\* A note-type change, had currentIndexChanged not been connected to
\* _update_fields_cbox.
UpdateFieldsCBox_KeepsFields ==
    /\ steps < MaxSteps
    /\ steps' = steps + 1
    /\ UNCHANGED <<dialogs, hostCalls, clickedRow>>
    /\ visible
    /\ edits < MaxEdits
    /\ \E row \in 0..(Len(note_filters_table) - 1), index \in 0..(Len(models) - 1) :
          /\ index # note_filters_table[row + 1].note_type_cbox.currentIndex
          /\ note_filters_table' =
                 [note_filters_table EXCEPT
                     ![row + 1].note_type_cbox = setCurrentIndex(@, index)]
    /\ edits' = edits + 1
    /\ lastOp' = Op("note_type_changed", "none")
    /\ confirmations' = 0
    /\ tooltipShown' = ""
    /\ UNCHANGED <<persisted, config, extra_fields_table, currentRow, currentTab,
                   ui, tag_selector, visible>>

\* SettingsDialog._update_fields_cbox: the user picks another note type in a
\* row, and currentIndexChanged re-populates the row's field selector
UpdateFieldsCBox ==
    /\ steps < MaxSteps
    /\ steps' = steps + 1
    /\ UNCHANGED <<dialogs, hostCalls, clickedRow>>
    /\ visible
    /\ edits < MaxEdits
    /\ \E row \in 0..(Len(note_filters_table) - 1), index \in 0..(Len(models) - 1) :
          /\ index # note_filters_table[row + 1].note_type_cbox.currentIndex
          /\ LET note_type_cbox ==
                     setCurrentIndex(note_filters_table[row + 1].note_type_cbox, index)
                 current_model_id == models[note_type_cbox.currentIndex + 1].id
                 fields == field_map(current_model_id)
             IN  note_filters_table' =
                     [note_filters_table EXCEPT
                         ![row + 1].note_type_cbox = note_type_cbox,
                         ![row + 1].field_cbox = QComboBox(fields)]
    /\ edits' = edits + 1
    /\ lastOp' = Op("note_type_changed", "none")
    /\ confirmations' = 0
    /\ tooltipShown' = ""
    /\ UNCHANGED <<persisted, config, extra_fields_table, currentRow, currentTab,
                   ui, tag_selector, visible>>

\* The combo boxes of a note-filters row the user can set without a handler
\* running, and the check boxes
NoteFilterCBoxes == { "field_cbox", "morphemizer_cbox", "morph_priority_cbox" }

NoteFilterCheckBoxes == { "read_checkbox", "modify_checkbox" }

\* The user picks another item in the field, tokenizer or priority selector of
\* a row, or toggles its read or modify box.
EditNoteFilterRow ==
    /\ steps < MaxSteps
    /\ steps' = steps + 1
    /\ UNCHANGED <<dialogs, hostCalls, clickedRow>>
    /\ visible
    /\ edits < MaxEdits
    /\ \E row \in 0..(Len(note_filters_table) - 1) :
          \/ \E w \in NoteFilterCBoxes :
                \E index \in 0..(Len(note_filters_table[row + 1][w].items) - 1) :
                   /\ index # note_filters_table[row + 1][w].currentIndex
                   /\ note_filters_table' =
                          [note_filters_table EXCEPT
                              ![row + 1][w] = setCurrentIndex(@, index)]
          \/ \E w \in NoteFilterCheckBoxes :
                note_filters_table' = [note_filters_table EXCEPT ![row + 1][w] = ~@]
    /\ edits' = edits + 1
    /\ lastOp' = Op("note_filter_edited", "none")
    /\ confirmations' = 0
    /\ tooltipShown' = ""
    /\ UNCHANGED <<persisted, config, extra_fields_table, currentRow, currentTab,
                   ui, tag_selector, visible>>

ExtraFieldCBoxes ==
    { "unknowns_cbox", "unknowns_count_cbox", "highlighted_cbox", "difficulty_cbox" }

\* The user picks another item in an extra-field selector; the extra-fields
\* table is on tab 1.
EditExtraFieldsRow ==
    /\ steps < MaxSteps
    /\ steps' = steps + 1
    /\ UNCHANGED <<dialogs, hostCalls, clickedRow>>
    /\ visible
    /\ currentTab = 1
    /\ edits < MaxEdits
    /\ \E row \in 0..(Len(extra_fields_table) - 1), w \in ExtraFieldCBoxes :
          \E index \in 0..(Len(extra_fields_table[row + 1][w].items) - 1) :
             /\ index # extra_fields_table[row + 1][w].currentIndex
             /\ extra_fields_table' =
                    [extra_fields_table EXCEPT ![row + 1][w] = setCurrentIndex(@, index)]
    /\ edits' = edits + 1
    /\ lastOp' = Op("extra_field_edited", "none")
    /\ confirmations' = 0
    /\ tooltipShown' = ""
    /\ UNCHANGED <<persisted, config, note_filters_table, currentRow, currentTab,
                   ui, tag_selector, visible>>

\* The values the user gives a scalar widget: those the dialog shows for the
\* default and for the custom configuration.
DefaultWidgets == NewDialog(DefaultSnapshot).ui

CustomWidgets == NewDialog(CustomSnapshot).ui

ScalarChoices(w) == { DefaultWidgets[w], CustomWidgets[w] }

\* The user edits a line edit, check box, spin box or key-sequence edit.
EditScalarWidget ==
    /\ steps < MaxSteps
    /\ steps' = steps + 1
    /\ UNCHANGED <<dialogs, hostCalls, clickedRow>>
    /\ visible
    /\ edits < MaxEdits
    /\ \E w \in DOMAIN ui : \E value \in ScalarChoices(w) :
          /\ value # ui[w]
          /\ ui' = [ui EXCEPT ![w] = value]
    /\ edits' = edits + 1
    /\ lastOp' = Op("scalar_edited", "none")
    /\ confirmations' = 0
    /\ tooltipShown' = ""
    /\ UNCHANGED <<persisted, config, note_filters_table, extra_fields_table,
                   currentRow, currentTab, tag_selector, visible>>

Next ==
    \/ OpenDialog
    \/ Reopen
    \/ Close
    \/ CloseWithCallback
    \/ AddNewRow
    \/ DeleteRow
    \/ RestoreTagsDefaults
    \/ RestoreParseDefaults
    \/ RestoreSkipDefaults
    \/ RestoreRecalcDefaults
    \/ RestoreShortcutsDefaults
    \/ RestoreAllDefaults
    \/ SaveToConfig
    \/ TabChange
    \/ TagsCellClicked
    \/ UpdateNoteFilterTags
    \/ UpdateFieldsCBox
    \/ EditNoteFilterRow
    \/ EditExtraFieldsRow
    \/ EditScalarWidget

Spec == Init /\ [][Next]_vars

\* ================================================================= claims

\* The state the dialog's handlers can change besides the stored configuration.
DialogState ==
    <<config, note_filters_table, extra_fields_table, currentRow, currentTab, ui,
      tag_selector>>

\* A committed save: the save handler ran and its confirmation, if any, was accepted.
SaveCommitted(op) == op.op = "save" /\ op.answer # "no"

\* Every note type, field, tokenizer and priority file a snapshot's filters
\* name exists in the host catalogs.
SnapshotInCatalogs(stored) ==
    \A i \in DOMAIN stored.filters :
        LET f == stored.filters[i]
            ids == { m.id : m \in { n \in Range(models) : n.name = f.note_type } }
        IN  /\ ids # {}
            /\ f.note_type_id \in ids
            /\ f.field \in Range(field_map(f.note_type_id))
            /\ f.morphemizer_description \in { m.description : m \in Range(morphemizers) }
            /\ f.morph_priority \in { "Collection frequency" } \cup Range(frequency_files)
            /\ \A e \in { f.unknowns_field, f.unknowns_count_field,
                          f.highlighted_field, f.difficulty_field } :
                   e \in { "(none)" } \cup Range(field_map(f.note_type_id))

\* C1: the stored configuration changes only in a step in which a save
\* commits; every other handler (add row, delete row, note-type or field
\* change, tab change, tag selector, restores, close, open, a declined save)
\* leaves it as it was.
C1_PersistedChangesOnlyOnSave ==
    [][~SaveCommitted(lastOp') => persisted' = persisted]_vars

\* C1 witness: the widgets were changed by an edit and then the dialog was
\* closed; what they would save differs from the stored configuration.
C1_Witness ==
    /\ lastOp.op = "close"
    /\ edits = 1
    /\ persisted \in InitSnapshots
    /\ NewConfig(ui, note_filters_table, extra_fields_table) # persisted

\* C2 (as claimed): a save right after the dialog opened, no widget edited,
\* on a snapshot whose references exist in the catalogs, commits the snapshot
\* it loaded.
C2_SaveWithoutChangesRoundTrips ==
    [][(/\ lastOp.op = "open"
        /\ SnapshotInCatalogs(persisted)
        /\ SaveCommitted(lastOp'))
       => persisted' = persisted]_vars

\* The extra-field selections of filter row i (0-based) that save would
\* write, and whether one of the four is set and differs from what the
\* working copy holds for row i; a row past the working copy's filters has
\* no saved value to agree with.
ExtraKeys ==
    { "unknowns_field", "unknowns_count_field", "highlighted_field", "difficulty_field" }

ExtraSelectionChanged(i) ==
    LET f == RowFilter(note_filters_table[i + 1], extra_fields_table[i + 1])
    IN  \E k \in ExtraKeys :
           /\ f[k] # "(none)"
           /\ (i + 1 \in DOMAIN config.filters => f[k] # config.filters[i + 1][k])

\* C3 (as claimed): whenever save runs while some filter row has one of its
\* four extra-field selections set and different from the saved one, the
\* confirmation is asked, and the save commits only if it is accepted.
C3_ExtraFieldChangeAsksConfirmation ==
    [][(/\ lastOp'.op = "save"
        /\ steps' = steps + 1
    /\ UNCHANGED <<dialogs, hostCalls, clickedRow>>
        /\ \E i \in 0..(Len(note_filters_table) - 1) : ExtraSelectionChanged(i))
       => /\ confirmations' = 1
          /\ persisted' # persisted => lastOp'.answer = "yes"]_vars

\* C4: a save whose confirmation is declined changes nothing: the stored
\* configuration, the working copy, both tables and every widget are as
\* before, and the recalc reminder is not shown.
C4_DeclinedSaveCommitsNothing ==
    [][(lastOp'.op = "save" /\ lastOp'.answer = "no")
       => /\ persisted' = persisted
          /\ DialogState' = DialogState
          /\ tooltipShown' # PleaseRecalc]_vars

\* C4 witness: a save was declined while an extra-field selection was pending.
C4_Witness ==
    /\ lastOp.op = "save"
    /\ lastOp.answer = "no"
    /\ confirmations = 1
    /\ NewConfig(ui, note_filters_table, extra_fields_table).filters # persisted.filters

\* What row i (1-based) of the two tables shows of filter record f.
NoteRowShows(row, f) ==
    /\ currentText(row.note_type_cbox) = f.note_type
    /\ JsonLoads(row.tags_item) = f.tags
    /\ currentText(row.field_cbox) = f.field
    /\ currentText(row.morphemizer_cbox) = f.morphemizer_description
    /\ currentText(row.morph_priority_cbox) = f.morph_priority
    /\ row.read_checkbox = f.read
    /\ row.modify_checkbox = f.modify

ExtraRowShows(row, f) ==
    /\ currentText(row.unknowns_cbox) = f.unknowns_field
    /\ currentText(row.unknowns_count_cbox) = f.unknowns_count_field
    /\ currentText(row.highlighted_cbox) = f.highlighted_field
    /\ currentText(row.difficulty_cbox) = f.difficulty_field

\* C5 (as claimed): right after the dialog opened on a snapshot whose
\* references exist in the catalogs, row i of each table shows filter record i
\* and the scalar widgets read back as the snapshot's scalars.
C5_LoadReproducesSnapshot ==
    (lastOp.op = "open" /\ SnapshotInCatalogs(persisted))
    => /\ Len(note_filters_table) = Len(persisted.filters)
       /\ Len(extra_fields_table) = Len(persisted.filters)
       /\ \A i \in DOMAIN persisted.filters :
             /\ NoteRowShows(note_filters_table[i], persisted.filters[i])
             /\ ExtraRowShows(extra_fields_table[i], persisted.filters[i])
       /\ \A k \in DOMAIN NewConfigScalars(ui) : NewConfigScalars(ui)[k] = persisted[k]

C7_AddRowAppendsOneRow ==
    [][(lastOp'.op = "add_row" /\ steps' = steps + 1)
       => /\ Len(note_filters_table') = Len(note_filters_table) + 1
          /\ Len(extra_fields_table') = Len(extra_fields_table) + 1
          /\ NoteRowShows(note_filters_table'[Len(note_filters_table')],
                          DefaultSnapshot.filters[1])
          /\ \A j \in 1..Len(note_filters_table) :
                note_filters_table'[j] = note_filters_table[j]]_vars

\* The widgets of a section, by the name of its restore handler.
SectionWidgets(section) ==
    CASE section = "restore_tags" -> TagsWidgets
      [] section = "restore_parse" -> ParseWidgets
      [] section = "restore_skip" -> SkipWidgets
      [] section = "restore_recalc" -> RecalcWidgets
      [] section = "restore_shortcuts" -> ShortcutsWidgets

SectionRestores ==
    { "restore_tags", "restore_parse", "restore_skip", "restore_recalc",
      "restore_shortcuts" }

\* C8: a confirmed restore of one section sets each widget of that section to
\* what the dialog shows for the default configuration, and changes no widget
\* of another section, neither table, the working copy nor the stored
\* configuration.
C8_SectionRestoreOnlyThatSection ==
    [][(lastOp'.op \in SectionRestores /\ lastOp'.answer = "yes")
       => /\ \A w \in DOMAIN ui :
                ui'[w] = IF w \in SectionWidgets(lastOp'.op)
                         THEN DefaultWidgets[w] ELSE ui[w]
          /\ UNCHANGED <<persisted, config, note_filters_table, extra_fields_table>>]_vars

\* C8 witness: one section was restored while the others hold custom values.
C8_Witness ==
    /\ lastOp.op = "restore_parse"
    /\ lastOp.answer = "yes"
    /\ \A w \in DOMAIN ui :
          ui[w] = IF w \in ParseWidgets THEN DefaultWidgets[w] ELSE CustomWidgets[w]

\* C9: a declined delete, section restore or restore-all changes nothing.
C9_DeclinedConfirmationChangesNothing ==
    [][(/\ lastOp'.op \in SectionRestores \cup { "restore_all", "delete_row" }
        /\ lastOp'.answer = "no")
       => /\ persisted' = persisted
          /\ DialogState' = DialogState]_vars

\* C9 witness: a delete was declined with a row selected in a table of two
\* rows whose widgets differ from the defaults.
C9_Witness ==
    /\ lastOp.op = "delete_row"
    /\ lastOp.answer = "no"
    /\ currentRow = 1
    /\ ui = CustomWidgets

\* C10: in every row of the note-filters table the field selector lists
\* exactly the fields of the note type selected in the row and has one of
\* them selected, and every filter a save has just committed names a field of
\* its note type.
C10_FieldChoicesFollowNoteType ==
    /\ \A i \in DOMAIN note_filters_table :
          LET row == note_filters_table[i]
              fields == field_map(models[row.note_type_cbox.currentIndex + 1].id)
          IN  /\ row.field_cbox.items = fields
              /\ row.field_cbox.currentIndex \in 0..(Len(fields) - 1)
    /\ SaveCommitted(lastOp) =>
          \A i \in DOMAIN persisted.filters :
             persisted.filters[i].field \in
                Range(field_map(persisted.filters[i].note_type_id))

\* C10 witness: a save committed a row whose note type the user had changed.
C10_Witness ==
    /\ SaveCommitted(lastOp)
    /\ edits = 1
    /\ \E i \in DOMAIN persisted.filters :
          /\ persisted.filters[i].note_type = "Cloze"
          /\ persisted.filters[i].field = "Text"
    /\ \A i \in DOMAIN config.filters : i = 1 => config.filters[i].note_type = "Cloze"
    /\ Len(persisted.filters) = 1

\* C11 (as claimed): when the tag selector's apply button is pressed, the
\* chosen tags are written to the tags cell of the row whose tags cell was
\* clicked to open the selector, wherever deletions have moved that row, and
\* no other row changes; nothing is written when that row is gone.
C11_ApplyWritesClickedRow ==
    [][(lastOp'.op = "tags_applied" /\ steps' = steps + 1)
       => note_filters_table' =
             setTagsItem(note_filters_table, clickedRow, tag_selector'.selected_tags)]_vars

\* C12: while the settings dialog is closed the tag selector is closed,
\* whichever way the dialog was closed.
C12_ClosedDialogClosesTagSelector ==
    ~visible => ~tag_selector.open

\* C12 witness: the dialog was closed by the cancel button or the window
\* after a click on a tags cell had opened the tag selector.
C12_Witness ==
    /\ ~visible
    /\ lastOp.op = "close"
    /\ tag_selector.current_note_filter_row >= 0
    /\ clickedRow >= 0

\* C13 (as claimed): while the settings dialog is closed the host's registry
\* records no instance of it.
C13_ClosedDialogIsDeregistered ==
    ~visible => ~dialogs.settings_dialog

\* The three extra-field selectors save compares, with the key of the filter
\* record each is saved under.
ComparedSelectors ==
    { [cbox |-> "unknowns_cbox", key |-> "unknowns_field"],
      [cbox |-> "highlighted_cbox", key |-> "highlighted_field"],
      [cbox |-> "difficulty_cbox", key |-> "difficulty_field"] }

\* C14: save asks the extra-fields confirmation exactly when (a) some current
\* row has an unknowns, highlighted or difficulty selection other than
\* "(none)" and (b) at some position below both the number of saved filter
\* records and the number of current rows one of the three selections is not
\* "(none)" and differs from the saved record at that position.
C14_ConfirmationExactlyWhen ==
    [][(lastOp'.op = "save" /\ steps' = steps + 1)
       => LET rows == 1..Len(note_filters_table)
              Selected(i, c) == currentText(extra_fields_table[i][c.cbox])
              a == \E i \in rows : \E c \in ComparedSelectors :
                       Selected(i, c) # "(none)"
              b == \E i \in rows :
                       /\ i <= Len(config.filters)
                       /\ \E c \in ComparedSelectors :
                             /\ Selected(i, c) # "(none)"
                             /\ Selected(i, c) # config.filters[i][c.key]
          IN  (confirmations' = 1) <=> (a /\ b)]_vars

\* C14 witness: a save asked the confirmation and committed on a yes, after
\* the user changed one of the three compared selections.
C14_Witness ==
    /\ lastOp.op = "save"
    /\ lastOp.answer = "yes"
    /\ confirmations = 1
    /\ edits = 1
    /\ \E i \in DOMAIN persisted.filters : \E c \in ComparedSelectors :
          persisted.filters[i][c.key] # "(none)"

\* C15 (as claimed): every filter record a save has just committed has each of
\* its four extra-field values equal to "(none)" or to a field of the note
\* type the record names.
C15_CommittedExtraFieldsFitNoteType ==
    SaveCommitted(lastOp) =>
        \A i \in DOMAIN persisted.filters : \A k \in ExtraKeys :
            persisted.filters[i][k] \in
                { "(none)" } \cup Range(field_map(persisted.filters[i].note_type_id))

\* The first record of the working copy's filters naming note type `name`, as
\* the set holding it ({} when there is none).
FirstSavedFilter(name) ==
    LET matches == { i \in DOMAIN config.filters : config.filters[i].note_type = name }
    IN  IF matches = {} THEN {}
        ELSE { config.filters[CHOOSE i \in matches : \A j \in matches : i <= j] }

\* The extra-fields tab was just opened.
ExtraFieldsTabOpened ==
    lastOp'.op = "tab_change" /\ currentTab' = 1 /\ steps' = steps + 1

\* C16 (as claimed): opening the extra-fields tab leaves the extra-fields
\* table with one row per note-filters row, row i labelled with the note type
\* selected in note-filters row i, each selection equal to the value the first
\* saved record of that note type holds, "(none)" without such a record.
C16_TabOpenRepopulates ==
    [][ExtraFieldsTabOpened
       => /\ Len(extra_fields_table') = Len(note_filters_table)
          /\ \A i \in DOMAIN note_filters_table :
                LET name == currentText(note_filters_table[i].note_type_cbox)
                    saved == FirstSavedFilter(name)
                IN  /\ extra_fields_table'[i].note_type_item = name
                    /\ \A c \in ComparedSelectors \cup
                                 { [cbox |-> "unknowns_count_cbox",
                                    key |-> "unknowns_count_field"] } :
                          currentText(extra_fields_table'[i][c.cbox]) =
                             IF saved = {} THEN "(none)"
                             ELSE (CHOOSE f \in saved : TRUE)[c.key]]_vars

\* C16: as above, except that a saved value which is not a field of the row's
\* note type cannot be selected and shows as "(none)".
C16_TabOpenRepopulatesSelectable ==
    [][ExtraFieldsTabOpened
       => /\ Len(extra_fields_table') = Len(note_filters_table)
          /\ \A i \in DOMAIN note_filters_table :
                LET cbox == note_filters_table[i].note_type_cbox
                    name == currentText(cbox)
                    fields == Range(field_map(models[cbox.currentIndex + 1].id))
                    saved == FirstSavedFilter(name)
                IN  /\ extra_fields_table'[i].note_type_item = name
                    /\ \A c \in ComparedSelectors \cup
                                 { [cbox |-> "unknowns_count_cbox",
                                    key |-> "unknowns_count_field"] } :
                          currentText(extra_fields_table'[i][c.cbox]) =
                             IF saved = {} THEN "(none)"
                             ELSE IF (CHOOSE f \in saved : TRUE)[c.key] \in fields
                             THEN (CHOOSE f \in saved : TRUE)[c.key]
                             ELSE "(none)"]_vars

\* C16 witness: the tab was opened after the note type of a row was changed,
\* and the table shows that row under its new note type.
C16_Witness ==
    /\ lastOp.op = "tab_change"
    /\ currentTab = 1
    /\ edits = 1
    /\ Len(extra_fields_table) = Len(note_filters_table)
    /\ \E i \in DOMAIN extra_fields_table :
          /\ i \in DOMAIN config.filters
          /\ extra_fields_table[i].note_type_item # config.filters[i].note_type
          /\ extra_fields_table[i].note_type_item =
                currentText(note_filters_table[i].note_type_cbox)

\* C17 (as claimed): a confirmed delete of a row leaves what save commits for
\* each surviving row as it was: the record save would write for a surviving
\* row has the same four extra-field values right after the deletion as the
\* record it would have written for that row right before.
C17_DeleteKeepsSurvivorsExtraFields ==
    [][(/\ lastOp'.op = "delete_row"
        /\ lastOp'.answer = "yes"
        /\ steps' = steps + 1
        /\ currentRow \in 0..(Len(note_filters_table) - 1))
       => \A j \in 1..Len(note_filters_table') : \A k \in ExtraKeys :
             NewFilters(note_filters_table', extra_fields_table')[j][k] =
                NewFilters(note_filters_table, extra_fields_table)
                    [IF j <= currentRow THEN j ELSE j + 1][k]]_vars

\* C18 (as claimed): a selection the user has just made in the extra-fields
\* table is still selected after add row is pressed: every extra-fields row
\* that shows the note type selected in its note-filters row keeps its four
\* selections.
C18_UnsavedExtraSelectionsSurvive ==
    [][(/\ lastOp.op = "extra_field_edited"
        /\ lastOp'.op = "add_row"
        /\ steps' = steps + 1)
       => \A i \in DOMAIN note_filters_table \cap DOMAIN extra_fields_table :
             extra_fields_table[i].note_type_item =
                currentText(note_filters_table[i].note_type_cbox)
             => \A c \in ExtraFieldCBoxes :
                   currentText(extra_fields_table'[i][c]) =
                      currentText(extra_fields_table[i][c])]_vars

\* C19 (as claimed): restore-all asks one confirmation; accepted, it rebuilds
\* both tables with one row per default filter record, each row showing its
\* record, and sets every scalar widget to its default; and after a tab change
\* or a committed save that follows it, what save writes is still the default
\* scalars and, for each row, the default record's four extra-field values.
C19_RestoreAllThenSaveCommitsDefaults ==
    [][/\ (lastOp'.op = "restore_all" /\ steps' = steps + 1)
          => /\ confirmations' = 1
             /\ lastOp'.answer = "yes"
                => /\ Len(note_filters_table') = Len(DefaultSnapshot.filters)
                   /\ Len(extra_fields_table') = Len(DefaultSnapshot.filters)
                   /\ \A i \in DOMAIN DefaultSnapshot.filters :
                         /\ NoteRowShows(note_filters_table'[i], DefaultSnapshot.filters[i])
                         /\ ExtraRowShows(extra_fields_table'[i], DefaultSnapshot.filters[i])
                   /\ ui' = DefaultWidgets
       /\ (/\ lastOp.op = "restore_all"
           /\ lastOp.answer = "yes"
           /\ lastOp'.op = "tab_change" \/ SaveCommitted(lastOp')
           /\ steps' = steps + 1)
          => LET new_config ==
                     NewConfig(ui', note_filters_table', extra_fields_table')
             IN  /\ \A k \in DOMAIN NewConfigScalars(ui') :
                       new_config[k] = DefaultSnapshot[k]
                 /\ Len(new_config.filters) = Len(DefaultSnapshot.filters)
                 /\ \A i \in DOMAIN DefaultSnapshot.filters : \A k \in ExtraKeys :
                       new_config.filters[i][k] = DefaultSnapshot.filters[i][k]]_vars

\* C20: a save right after a committed save, with nothing changed in between,
\* asks no confirmation and commits what the first one committed.
C20_SaveIsIdempotent ==
    [][(SaveCommitted(lastOp) /\ lastOp'.op = "save" /\ steps' = steps + 1)
       => /\ confirmations' = 0
          /\ SaveCommitted(lastOp')
          /\ persisted' = persisted
          /\ config' = config]_vars

\* C20 witness: the unknowns field of the default filter was set and saved on
\* a yes, and a second save followed without a confirmation.
C20_Witness ==
    /\ lastOp.op = "save"
    /\ lastOp.answer = "none"
    /\ confirmations = 0
    /\ steps = 4
    /\ edits = 1
    /\ persisted = [DefaultSnapshot EXCEPT
                       !.filters[1].unknowns_field = "Front",
                       !.filters[1].unknowns_field_index = 1]

\* What save looks up in row i of the note-filters table: the four selectors
\* and two check boxes as cell widgets, and the tags item.
NoteRowLookups ==
    { "note_type_cbox", "tags_item", "field_cbox", "morphemizer_cbox",
      "morph_priority_cbox", "read_checkbox", "modify_checkbox" }

\* C21: the extra-fields table has at least as many rows as the note-filters
\* table, and every row below the note-filters row count holds, in both
\* tables, every widget and item save looks up.
C21_SaveLookupsNeverFail ==
    /\ Len(extra_fields_table) >= Len(note_filters_table)
    /\ \A i \in DOMAIN note_filters_table :
          /\ note_filters_table[i].widgets
          /\ NoteRowLookups \subseteq DOMAIN note_filters_table[i]
          /\ extra_fields_table[i].widgets
          /\ ExtraFieldCBoxes \subseteq DOMAIN extra_fields_table[i]

\* C21 witness: the tag selector's apply was aimed at a row index the
\* note-filters table no longer has, after a deletion left the extra-fields
\* table with more rows than the note-filters table.
C21_Witness ==
    /\ lastOp.op = "tags_applied"
    /\ tag_selector.current_note_filter_row >= Len(note_filters_table)
    /\ Len(note_filters_table) >= 1
    /\ Len(extra_fields_table) > Len(note_filters_table)

\* C22: a host-requested close makes three calls in this order: close, then
\* markClosed, then the callback, once; the dialog is already hidden when it
\* is marked closed, and hidden and no longer recorded by the registry when
\* the callback runs.
C22_CloseWithCallbackOrder ==
    hostCalls # << >> =>
        /\ Len(hostCalls) = 3
        /\ hostCalls[1].call = "close"
        /\ hostCalls[2].call = "markClosed"
        /\ hostCalls[3].call = "callback"
        /\ ~hostCalls[2].visible
        /\ ~hostCalls[3].visible
        /\ ~hostCalls[3].marked_open

\* C22 witness: the host requested the close while the dialog was shown.
C22_Witness ==
    /\ lastOp.op = "close_with_callback"
    /\ Len(hostCalls) = 3
    /\ hostCalls[1].visible
    /\ hostCalls[1].marked_open
    /\ ~visible
    /\ ~dialogs.settings_dialog

====
